---- MODULE Spec2Model ----
(***************************************************************************)
(* A model of the interactive coordinate/drag engine and of the            *)
(* transformation/animation orchestrator of "Livia's Interactive          *)
(* Geometric Transformations" (React, TypeScript).                         *)
(*                                                                         *)
(*   src/unnamed/part_000        components/MathGrid.tsx                   *)
(*   src/unnamed/part_001        App.tsx                                   *)
(*   src/components/Controls.tsx Controls.tsx, followed by                 *)
(*                               TransformationLog.tsx, types.ts and       *)
(*                               services/geometry.ts                      *)
(*                                                                         *)
(* Numbers.  A JavaScript number is modelled as an integer count of        *)
(* thousandths (Unit = 1.0), so that Math.round (to a whole number) and    *)
(* toFixed(2) (to hundredths) are real roundings.  cos and sin of the      *)
(* angles the controls offer (+-90, +-180) are taken as exactly 0 and      *)
(* +-1; the 1e-16 error of Math.cos(Math.PI / 2) is below the resolution   *)
(* of the model.  -0 is not distinguished from 0 (-0 === 0 in the code).   *)
(*                                                                         *)
(* null.  A nullable value is a sequence of length 0 (null) or 1.          *)
(*                                                                         *)
(* React.  Every handler reads the state of the latest render, except the  *)
(* two listeners handleDragStart registers on window: they are the         *)
(* closures of the render in which the gesture started and keep that       *)
(* render's `history` (useCallback deps [history] of handlePointsDrag and  *)
(* handleDragEnd in App).  State held in refs is shared by all closures.   *)
(***************************************************************************)
EXTENDS Integers, Sequences, FiniteSets, TLC

VARIABLES
    \* App (part_001:56-61)
    points,                  \* Point[]
    transformedPoints,       \* Point[] | null
    history,                 \* TransformationLogEntry[]
    highlightedPointIndex,   \* number | null
    animation,               \* {from, to, key} | null
    isAnimating,             \* boolean
    \* App: completions scheduled by setTimeout(..., 750) and not yet run
    timers,
    \* Date.now(), read at part_001:150 and part_001:176
    clock,
    \* MathGrid (part_000:28-31)
    dragInfo,                \* DragInfo | null  (React state)
    isMoving,                \* boolean
    dragInfoRef,             \* DragInfo | null  (ref)
    latestDraggedPointsRef,  \* Point[] | null   (ref)
    \* MathGrid: the (handleDragMove, handleDragEnd) closure pairs registered
    \* on window, in registration order
    listeners,
    \* MathGrid: setTimeout(() => setDragInfo(null), 0) calls not yet run
    clearTimers,
    \* Drag gestures started so far (bounds the exploration)
    gestures,
    \* The last event delivered and what it did (observation only)
    ev

appVars  == <<points, transformedPoints, history, highlightedPointIndex,
              animation, isAnimating, timers, clock>>
gridVars == <<dragInfo, isMoving, dragInfoRef, latestDraggedPointsRef,
              listeners, clearTimers>>
vars     == <<points, transformedPoints, history, highlightedPointIndex,
              animation, isAnimating, timers, clock,
              dragInfo, isMoving, dragInfoRef, latestDraggedPointsRef,
              listeners, clearTimers, gestures, ev>>

----------------------------------------------------------------------------
(* Bounds of the exploration *)

\* Accepted Apply requests per behaviour (each reads Date.now() twice).
MaxApplies == 2
\* The same, where the history is followed over more requests (SpecLog).
MaxAppliesLog == 3
\* Closure pairs registered on window at the same time.
MaxListeners == 2
\* Deferred setDragInfo(null) calls pending at the same time.
MaxPendingClears == 2
\* Drag gestures started per behaviour.
MaxGestures == 1
\* The same, where gestures follow or overlap each other (SpecDrag).
MaxGesturesDrag == 2
\* Apply requests per behaviour in SpecDrag.
MaxAppliesDrag == 1
\* Largest grid coordinate clicked in SpecSort (the smallest is 0).
MaxCoordSort == 3

----------------------------------------------------------------------------
(* Numbers *)

Unit == 1000

Null == <<>>
Some(v) == <<v>>
IsNull(o) == o = <<>>
Val(o) == o[1]

Abs(v) == IF v < 0 THEN -v ELSE v

\* Math.round: the nearest whole number, a tie going up (towards +infinity).
MathRound(v) == ((v + Unit \div 2) \div Unit) * Unit

\* parseFloat(v.toFixed(2)): the nearest hundredth, a tie going away from 0.
ToFixed2(v) ==
    IF v >= 0 THEN ((v + 5) \div 10) * 10
              ELSE -((((-v) + 5) \div 10) * 10)

\* formatNumber: Number(num.toFixed(2)).toString(); the string is modelled by
\* the number it prints.
formatNumber(num) == ToFixed2(num)

Pt(x, y) == [x |-> x, y |-> y]

MapSeq(s, F(_)) == [i \in 1..Len(s) |-> F(s[i])]

Take(s, n) == IF Len(s) <= n THEN s ELSE SubSeq(s, 1, n)

\* p => ({ x: parseFloat(p.x.toFixed(2)), y: parseFloat(p.y.toFixed(2)) })
RoundPoint2(p) == Pt(ToFixed2(p.x), ToFixed2(p.y))
RoundPoints2(ps) == MapSeq(ps, RoundPoint2)

----------------------------------------------------------------------------
(* services/geometry.ts *)

translate(ps, tx, ty) == MapSeq(ps, LAMBDA p : Pt(p.x + tx, p.y + ty))

\* Math.cos and Math.sin of angleDegrees * (Math.PI / 180), as whole numbers.
Cos(angleDegrees) ==
    CASE angleDegrees = 90   -> 0
      [] angleDegrees = -90  -> 0
      [] angleDegrees = 180  -> -1
      [] angleDegrees = -180 -> -1

Sin(angleDegrees) ==
    CASE angleDegrees = 90   -> 1
      [] angleDegrees = -90  -> -1
      [] angleDegrees = 180  -> 0
      [] angleDegrees = -180 -> 0

\* Variant of rotate that turns clockwise for positive angles.
rotate_Clockwise(ps, angleDegrees) ==
    LET cosA == Cos(angleDegrees)
        sinA == Sin(angleDegrees)
    IN  MapSeq(ps, LAMBDA p : Pt(p.x * cosA + p.y * sinA,
                                 p.y * cosA - p.x * sinA))

rotate(ps, angleDegrees) ==
    LET cosA == Cos(angleDegrees)
        sinA == Sin(angleDegrees)
    IN  MapSeq(ps, LAMBDA p : Pt(p.x * cosA - p.y * sinA,
                                 p.x * sinA + p.y * cosA))

reflect(ps, axis) ==
    MapSeq(ps, LAMBDA p : IF axis = "x" THEN Pt(p.x, -p.y)
                                        ELSE Pt(-p.x, p.y))

----------------------------------------------------------------------------
(* App.tsx: applyTransform, generateMath *)

applyTransform(pointsToTransform, type, params) ==
    CASE type = "Rotate"    -> rotate(pointsToTransform, params.angle)
      [] type = "Reflect"   -> reflect(pointsToTransform, params.axis)
      [] type = "Translate" -> translate(pointsToTransform, params.tx, params.ty)
      [] OTHER              -> pointsToTransform

\* One derivation string per source point.  A string is modelled by its
\* template and the formatted numbers substituted into it.
generateMath(sourcePoints, type, params) ==
    CASE type = "Rotate" ->
            MapSeq(sourcePoints, LAMBDA p :
                [form |-> "matrix",
                 cosA |-> formatNumber(Cos(params.angle) * Unit),
                 sinA |-> formatNumber(Sin(params.angle) * Unit),
                 x |-> formatNumber(p.x), y |-> formatNumber(p.y)])
      [] type = "Reflect" ->
            MapSeq(sourcePoints, LAMBDA p :
                [form |-> IF params.axis = "x" THEN "(x, -y)" ELSE "(-x, y)",
                 x |-> formatNumber(p.x), y |-> formatNumber(p.y)])
      [] type = "Translate" ->
            MapSeq(sourcePoints, LAMBDA p :
                [form |-> "(x + dx, y + dy)",
                 x |-> formatNumber(p.x), y |-> formatNumber(p.y),
                 dx |-> formatNumber(params.tx), dy |-> formatNumber(params.ty)])
      [] OTHER -> <<>>

\* The description text of a log entry (part_001:154-165).
Description(type, params) ==
    CASE type = "Rotate"    -> [text |-> "Rotated by", a |-> params.angle, b |-> 0]
      [] type = "Reflect"   -> [text |-> "Reflected across", a |-> IF params.axis = "x" THEN 0 ELSE 1, b |-> 0]
      [] type = "Translate" -> [text |-> "Translated by vector", a |-> params.tx, b |-> params.ty]
      [] OTHER              -> [text |-> "", a |-> 0, b |-> 0]

----------------------------------------------------------------------------
(* App.tsx: the angular sort of handleGridClick (part_001:80-94) *)

\* The range of Math.atan2(dy, dx) a direction falls in:
\*   0: (-pi, 0)   1: exactly 0 (also dx = dy = 0)   2: (0, pi)   3: exactly pi
AngleRange(dx, dy) ==
    IF dy < 0 THEN 0
    ELSE IF dy > 0 THEN 2
    ELSE IF dx >= 0 THEN 1 ELSE 3

\* Math.atan2(ady, adx) - Math.atan2(bdy, bdx) < 0.  Within one open half
\* plane the angle grows counter-clockwise, which the cross product decides.
\* Directions that are mathematically parallel get equal angles.
AngleLess(adx, ady, bdx, bdy) ==
    LET ra == AngleRange(adx, ady)
        rb == AngleRange(bdx, bdy)
    IN  \/ ra < rb
        \/ /\ ra = rb
           /\ ra \in {0, 2}
           /\ adx * bdy - ady * bdx > 0

\* (a, b) => angleA - angleB of part_001:89-93, as "a sorts before b".  The
\* centroid is sum / 4; directions are taken times 4 to stay whole.
SortsBefore(a, b, sum) ==
    AngleLess(4 * a.x - sum.x, 4 * a.y - sum.y, 4 * b.x - sum.x, 4 * b.y - sum.y)

\* Array.prototype.sort is stable: insert each element after the elements
\* that do not sort after it.
RECURSIVE InsertSorted(_, _, _)
InsertSorted(sorted, a, sum) ==
    IF sorted = <<>> THEN <<a>>
    ELSE IF SortsBefore(a, sorted[Len(sorted)], sum)
         THEN Append(InsertSorted(SubSeq(sorted, 1, Len(sorted) - 1), a, sum),
                     sorted[Len(sorted)])
         ELSE Append(sorted, a)

RECURSIVE SortFrom(_, _, _, _)
SortFrom(sorted, ps, i, sum) ==
    IF i > Len(ps) THEN sorted
    ELSE SortFrom(InsertSorted(sorted, ps[i], sum), ps, i + 1, sum)

RECURSIVE SumPoints(_, _)
SumPoints(ps, i) ==
    IF i > Len(ps) THEN Pt(0, 0)
    ELSE LET r == SumPoints(ps, i + 1) IN Pt(ps[i].x + r.x, ps[i].y + r.y)

\* Variant of the reordering that leaves the points in click order.
SortByCentroidAngle_ClickOrder(newPoints) == newPoints

SortByCentroidAngle(newPoints) ==
    SortFrom(<<>>, newPoints, 1, SumPoints(newPoints, 1))

----------------------------------------------------------------------------
(* The program state as one value, so that a handler can call another.     *)
(* The last fields are what the current event has done so far: prevented  *)
(* (e.preventDefault() was called), live (the point sets passed to         *)
(* onPointsDrag), commits (the point sets passed to onDragEnd), rerender   *)
(* (setHistory was called: the next render makes new closures), removed    *)
(* (the running closure pair called removeEventListener on itself) and     *)
(* threw (a listener ended with a TypeError).                              *)

Store ==
    [points |-> points, transformedPoints |-> transformedPoints,
     history |-> history, highlightedPointIndex |-> highlightedPointIndex,
     animation |-> animation, isAnimating |-> isAnimating,
     timers |-> timers, clock |-> clock,
     dragInfo |-> dragInfo, isMoving |-> isMoving,
     dragInfoRef |-> dragInfoRef,
     latestDraggedPointsRef |-> latestDraggedPointsRef,
     listeners |-> listeners, clearTimers |-> clearTimers,
     prevented |-> FALSE, live |-> <<>>, commits |-> <<>>, rerender |-> FALSE,
     removed |-> FALSE, threw |-> FALSE]

\* setHistory(h): a new array, hence new handlePointsDrag and handleDragEnd
\* in App and new handleDragMove and handleDragEnd in MathGrid.
setHistory(s, h) == [s EXCEPT !.history = h, !.rerender = TRUE]

----------------------------------------------------------------------------
(* App.tsx: the handlers *)

handleHighlightPoint(s, index) ==
    [s EXCEPT !.highlightedPointIndex =
        IF s.highlightedPointIndex = Some(index) THEN Null ELSE Some(index)]

\* Variant of handleGridClick whose length test is off by one: a fifth
\* click is appended.
handleGridClick_OffByOne(s, point) ==
    LET prevPoints == s.points
        newPoints  == Append(prevPoints, point)
        s1 == [s EXCEPT !.highlightedPointIndex = Null]
    IN  IF Len(prevPoints) > 4
        THEN setHistory([s1 EXCEPT !.transformedPoints = Null,
                                   !.points = <<point>>], <<>>)
        ELSE IF Len(newPoints) = 4
             THEN [s1 EXCEPT !.points = SortByCentroidAngle(newPoints)]
             ELSE [s1 EXCEPT !.points = newPoints]

\* Variant of handleGridClick that starts the new shape without clearing
\* the preview and the history.
handleGridClick_KeepsHistory(s, point) ==
    LET prevPoints == s.points
        newPoints  == Append(prevPoints, point)
        s1 == [s EXCEPT !.highlightedPointIndex = Null]
    IN  IF Len(prevPoints) >= 4
        THEN [s1 EXCEPT !.points = <<point>>]
        ELSE IF Len(newPoints) = 4
             THEN [s1 EXCEPT !.points = SortByCentroidAngle(newPoints)]
             ELSE [s1 EXCEPT !.points = newPoints]

handleGridClick(s, point) ==
    LET prevPoints == s.points
        newPoints  == Append(prevPoints, point)
        s1 == [s EXCEPT !.highlightedPointIndex = Null]
    IN  IF Len(prevPoints) >= 4
        THEN setHistory([s1 EXCEPT !.transformedPoints = Null,
                                   !.points = <<point>>], <<>>)
        ELSE IF Len(newPoints) = 4
             THEN [s1 EXCEPT !.points = SortByCentroidAngle(newPoints)]
             ELSE [s1 EXCEPT !.points = newPoints]

\* `hist` is the history of the render whose closure is running.
handlePointsDrag(s, hist, newPoints) ==
    LET s1 == [s EXCEPT !.points = newPoints,
                        !.live = Append(s.live, newPoints)]
    IN  IF Len(hist) > 0
        THEN LET lastLogEntry == hist[1]
                 newTransformedPoints ==
                     applyTransform(newPoints, lastLogEntry.type, lastLogEntry.params)
             IN  [s1 EXCEPT !.transformedPoints =
                                Some(RoundPoints2(newTransformedPoints))]
        ELSE s1

Slice1(prevHistory) ==
    IF Len(prevHistory) = 0 THEN <<>> ELSE Tail(prevHistory)

\* Variant of handleDragEnd that does not recompute the entry's result: it
\* keeps the transformedPoints the entry had.
App_handleDragEnd_KeepsResult(s, hist, finalPoints) ==
    LET s1 == [s EXCEPT !.commits = Append(s.commits, finalPoints)]
    IN  IF Len(hist) > 0
        THEN LET lastLogEntry == hist[1]
                 newMath ==
                     generateMath(finalPoints, lastLogEntry.type, lastLogEntry.params)
                 updatedLogEntry ==
                     [lastLogEntry EXCEPT !.originalPoints = finalPoints,
                                          !.math = newMath]
             IN  setHistory(s1, <<updatedLogEntry>> \o Slice1(s1.history))
        ELSE s1

App_handleDragEnd(s, hist, finalPoints) ==
    LET s1 == [s EXCEPT !.commits = Append(s.commits, finalPoints)]
    IN  IF Len(hist) > 0
        THEN LET lastLogEntry == hist[1]
                 newTransformedPoints ==
                     applyTransform(finalPoints, lastLogEntry.type, lastLogEntry.params)
                 newMath ==
                     generateMath(finalPoints, lastLogEntry.type, lastLogEntry.params)
                 updatedLogEntry ==
                     [lastLogEntry EXCEPT !.originalPoints = finalPoints,
                                          !.transformedPoints = newTransformedPoints,
                                          !.math = newMath]
             IN  setHistory(
                     [s1 EXCEPT !.transformedPoints =
                                    Some(RoundPoints2(newTransformedPoints))],
                     <<updatedLogEntry>> \o Slice1(s1.history))
        ELSE s1

\* Variant of handleReset that cancels the pending completion (a
\* clearTimeout) and leaves isAnimating and animation as they are.
handleReset_CancelsCompletion(s) ==
    setHistory([s EXCEPT !.points = <<>>,
                         !.transformedPoints = Null,
                         !.highlightedPointIndex = Null,
                         !.timers = <<>>], <<>>)

\* Variant of handleReset that leaves the history and the highlight.
handleReset_KeepsHistory(s) ==
    [s EXCEPT !.points = <<>>, !.transformedPoints = Null]

handleReset(s) ==
    setHistory([s EXCEPT !.points = <<>>,
                         !.transformedPoints = Null,
                         !.highlightedPointIndex = Null], <<>>)

\* The closure setTimeout keeps (part_001:153-188): what the completion
\* reads is the render of the Apply, not the state at completion.
Completion(type, params, sourcePoints, newPoints, captured) ==
    [type |-> type, params |-> params, sourcePoints |-> sourcePoints,
     newPoints |-> newPoints, transformedPoints |-> captured]

\* Variant of handleApplyTransform without the isAnimating guard.
handleApplyTransform_NoAnimatingGuard(s, type, params) ==
    LET sourcePoints == IF ~IsNull(s.transformedPoints)
                        THEN Val(s.transformedPoints) ELSE s.points
    IN  IF Len(sourcePoints) # 4 THEN s
        ELSE LET newPoints == applyTransform(sourcePoints, type, params)
             IN  [s EXCEPT
                   !.isAnimating = TRUE,
                   !.highlightedPointIndex = Null,
                   !.animation = Some([from |-> sourcePoints,
                                       to   |-> RoundPoints2(newPoints),
                                       key  |-> s.clock + 1]),
                   !.clock = s.clock + 1,
                   !.timers = Append(s.timers,
                       Completion(type, params, sourcePoints, newPoints,
                                  s.transformedPoints))]

\* Variant of handleApplyTransform without the test on the source's length.
handleApplyTransform_NoLengthTest(s, type, params) ==
    IF s.isAnimating THEN s
    ELSE LET sourcePoints == IF ~IsNull(s.transformedPoints)
                             THEN Val(s.transformedPoints) ELSE s.points
             newPoints == applyTransform(sourcePoints, type, params)
         IN  [s EXCEPT
               !.isAnimating = TRUE,
               !.highlightedPointIndex = Null,
               !.animation = Some([from |-> sourcePoints,
                                   to   |-> RoundPoints2(newPoints),
                                   key  |-> s.clock + 1]),
               !.clock = s.clock + 1,
               !.timers = Append(s.timers,
                   Completion(type, params, sourcePoints, newPoints,
                              s.transformedPoints))]

handleApplyTransform(s, type, params) ==
    IF s.isAnimating THEN s
    ELSE LET sourcePoints == IF ~IsNull(s.transformedPoints)
                             THEN Val(s.transformedPoints) ELSE s.points
         IN  IF Len(sourcePoints) # 4 THEN s
             ELSE LET newPoints == applyTransform(sourcePoints, type, params)
                  IN  [s EXCEPT
                        !.isAnimating = TRUE,
                        !.highlightedPointIndex = Null,
                        !.animation = Some([from |-> sourcePoints,
                                            to   |-> RoundPoints2(newPoints),
                                            key  |-> s.clock + 1]),
                        !.clock = s.clock + 1,
                        !.timers = Append(s.timers,
                            Completion(type, params, sourcePoints, newPoints,
                                       s.transformedPoints))]

\* The callback of part_001:153-188, for the oldest scheduled completion.
\* Variant of the completion that prepends the entry without the slice(0, 2).
RunCompletion_NoSlice(s) ==
    LET t == Head(s.timers)
        finalTransformedPoints == RoundPoints2(t.newPoints)
        logEntry == [id |-> s.clock + 1,
                     type |-> t.type,
                     params |-> t.params,
                     originalPoints |-> t.sourcePoints,
                     transformedPoints |-> t.newPoints,
                     description |-> Description(t.type, t.params),
                     math |-> generateMath(t.sourcePoints, t.type, t.params)]
        s1 == IF ~IsNull(t.transformedPoints)
              THEN [s EXCEPT !.points = Val(t.transformedPoints)] ELSE s
    IN  setHistory(
            [s1 EXCEPT !.transformedPoints = Some(finalTransformedPoints),
                       !.animation = Null,
                       !.isAnimating = FALSE,
                       !.clock = s.clock + 1,
                       !.timers = Tail(s.timers)],
            <<logEntry>> \o s1.history)

\* Variant of the completion that leaves isAnimating set.
RunCompletion_LeavesAnimating(s) ==
    LET t == Head(s.timers)
        finalTransformedPoints == RoundPoints2(t.newPoints)
        logEntry == [id |-> s.clock + 1,
                     type |-> t.type,
                     params |-> t.params,
                     originalPoints |-> t.sourcePoints,
                     transformedPoints |-> t.newPoints,
                     description |-> Description(t.type, t.params),
                     math |-> generateMath(t.sourcePoints, t.type, t.params)]
        s1 == IF ~IsNull(t.transformedPoints)
              THEN [s EXCEPT !.points = Val(t.transformedPoints)] ELSE s
    IN  setHistory(
            [s1 EXCEPT !.transformedPoints = Some(finalTransformedPoints),
                       !.animation = Null,
                       !.clock = s.clock + 1,
                       !.timers = Tail(s.timers)],
            Take(<<logEntry>> \o s1.history, 2))

RunCompletion(s) ==
    LET t == Head(s.timers)
        finalTransformedPoints == RoundPoints2(t.newPoints)
        logEntry == [id |-> s.clock + 1,
                     type |-> t.type,
                     params |-> t.params,
                     originalPoints |-> t.sourcePoints,
                     transformedPoints |-> t.newPoints,
                     description |-> Description(t.type, t.params),
                     math |-> generateMath(t.sourcePoints, t.type, t.params)]
        s1 == IF ~IsNull(t.transformedPoints)
              THEN [s EXCEPT !.points = Val(t.transformedPoints)] ELSE s
    IN  setHistory(
            [s1 EXCEPT !.transformedPoints = Some(finalTransformedPoints),
                       !.animation = Null,
                       !.isAnimating = FALSE,
                       !.clock = s.clock + 1,
                       !.timers = Tail(s.timers)],
            Take(<<logEntry>> \o s1.history, 2))

----------------------------------------------------------------------------
(* MathGrid.tsx: the coordinate mapper *)

\* gridSize = 20 (the default of the prop, which App does not pass).
gridSize == 20
halfGrid == gridSize \div 2

\* viewBox={`${-halfGrid} ${-halfGrid} ${gridSize} ${gridSize}`}
viewBox == [x |-> -halfGrid, y |-> -halfGrid, width |-> gridSize, height |-> gridSize]

\* svg.getBoundingClientRect(), in CSS pixels: 20 pixels per grid unit.
rect == [left |-> 10, top |-> 30, width |-> 400, height |-> 400]

\* A pointer event.  `touches` is meaningful for touch events only.
MouseEvent(clientX, clientY) ==
    [isTouch |-> FALSE, touches |-> <<>>, clientX |-> clientX, clientY |-> clientY]
TouchEvent(touches) ==
    [isTouch |-> TRUE, touches |-> touches, clientX |-> 0, clientY |-> 0]
Touch(clientX, clientY) == [clientX |-> clientX, clientY |-> clientY]

\* Point | null.  svgRef.current is set for as long as the grid is mounted.
getCoordsFromEvent(e) ==
    IF e.isTouch /\ Len(e.touches) = 0 THEN Null
    ELSE LET clientX == IF e.isTouch THEN e.touches[1].clientX ELSE e.clientX
             clientY == IF e.isTouch THEN e.touches[1].clientY ELSE e.clientY
             svgX == clientX - rect.left
             svgY == clientY - rect.top
             \* ratioX * viewBox.width and (1 - ratioY) * viewBox.height
             mappedX == viewBox.x * Unit
                          + (svgX * viewBox.width * Unit) \div rect.width
             mappedY == viewBox.y * Unit
                          + ((rect.height - svgY) * viewBox.height * Unit) \div rect.height
         IN  Some(Pt(mappedX, mappedY))

----------------------------------------------------------------------------
(* MathGrid.tsx: the handlers *)

\* Variant of handleGridBackgroundClick without the test on coords: a null
\* position is taken as the origin.
handleGridBackgroundClick_NoNullTest(s, e) ==
    IF ~IsNull(s.dragInfo) \/ ~IsNull(s.animation) THEN s
    ELSE LET coords == getCoordsFromEvent(e)
         IN  IF ~IsNull(coords)
             THEN handleGridClick(s, Pt(MathRound(Val(coords).x),
                                        MathRound(Val(coords).y)))
             ELSE handleGridClick(s, Pt(0, 0))

handleGridBackgroundClick(s, e) ==
    IF ~IsNull(s.dragInfo) \/ ~IsNull(s.animation) THEN s
    ELSE LET coords == getCoordsFromEvent(e)
         IN  IF ~IsNull(coords)
             THEN handleGridClick(s, Pt(MathRound(Val(coords).x),
                                        MathRound(Val(coords).y)))
             ELSE s

\* Variant of handleDragEnd that commits the session's initialPoints
\* instead of the latest dragged points.
MathGrid_handleDragEnd_CommitsBaseline(s, c) ==
    LET s1 == [s EXCEPT !.removed = TRUE, !.isMoving = FALSE]
        s2 == IF /\ ~IsNull(s1.latestDraggedPointsRef)
                 /\ ~IsNull(s1.dragInfoRef)
                 /\ Val(s1.dragInfoRef).isDragging
              THEN App_handleDragEnd(s1, c.history, Val(s1.dragInfoRef).initialPoints)
              ELSE s1
    IN  [s2 EXCEPT !.latestDraggedPointsRef = Null,
                   !.dragInfoRef = Null,
                   !.clearTimers = s2.clearTimers + 1]

\* Variant of handleDragEnd without the test on isDragging.
MathGrid_handleDragEnd_NoConfirmTest(s, c) ==
    LET s1 == [s EXCEPT !.removed = TRUE, !.isMoving = FALSE]
        s2 == IF ~IsNull(s1.latestDraggedPointsRef)
              THEN App_handleDragEnd(s1, c.history, Val(s1.latestDraggedPointsRef))
              ELSE s1
    IN  [s2 EXCEPT !.latestDraggedPointsRef = Null,
                   !.dragInfoRef = Null,
                   !.clearTimers = s2.clearTimers + 1]

\* `c` is the closure pair that is running: c.history is its render's history.
MathGrid_handleDragEnd(s, c) ==
    LET s1 == [s EXCEPT !.removed = TRUE, !.isMoving = FALSE]
        s2 == IF /\ ~IsNull(s1.latestDraggedPointsRef)
                 /\ ~IsNull(s1.dragInfoRef)
                 /\ Val(s1.dragInfoRef).isDragging
              THEN App_handleDragEnd(s1, c.history, Val(s1.latestDraggedPointsRef))
              ELSE s1
    IN  [s2 EXCEPT !.latestDraggedPointsRef = Null,
                   !.dragInfoRef = Null,
                   !.clearTimers = s2.clearTimers + 1]

\* Variant of EmitMove that applies the displacement to the latest dragged
\* points instead of the session's initialPoints.
EmitMove_FromLatest(s, c, cur, e) ==
    LET s1 == [s EXCEPT !.prevented = TRUE]
        currentPos == getCoordsFromEvent(e)
    IN  IF IsNull(currentPos) THEN s1
        ELSE LET dx == Val(currentPos).x - cur.startPos.x
                 dy == Val(currentPos).y - cur.startPos.y
                 from == Val(s.latestDraggedPointsRef)
                 moved(p) == Pt(MathRound(p.x + dx), MathRound(p.y + dy))
                 newPoints ==
                     IF cur.type = "point"
                     THEN [i \in 1..Len(from) |->
                             IF i - 1 = cur.index THEN moved(from[i]) ELSE from[i]]
                     ELSE [i \in 1..Len(from) |-> moved(from[i])]
                 s2 == handlePointsDrag(s1, c.history, newPoints)
             IN  [s2 EXCEPT !.latestDraggedPointsRef = Some(newPoints)]

\* part_000:134-159, for a currentDragInfo `cur` already classified.
EmitMove(s, c, cur, e) ==
    LET s1 == [s EXCEPT !.prevented = TRUE]    \* e.cancelable
        currentPos == getCoordsFromEvent(e)
    IN  IF IsNull(currentPos) THEN s1
        ELSE LET dx == Val(currentPos).x - cur.startPos.x
                 dy == Val(currentPos).y - cur.startPos.y
                 moved(p) == Pt(MathRound(p.x + dx), MathRound(p.y + dy))
                 newPoints ==
                     IF cur.type = "point"
                     THEN [i \in 1..Len(cur.initialPoints) |->
                             IF i - 1 = cur.index THEN moved(cur.initialPoints[i])
                                                  ELSE cur.initialPoints[i]]
                     ELSE [i \in 1..Len(cur.initialPoints) |->
                             moved(cur.initialPoints[i])]
                 s2 == handlePointsDrag(s1, c.history, newPoints)
             IN  [s2 EXCEPT !.latestDraggedPointsRef = Some(newPoints)]

threshold == 5

\* Variant of handleDragMove that takes equal displacements (dy = dx) as a
\* scroll.
handleDragMove_TieIsScroll(s, c, e) ==
    IF IsNull(s.dragInfoRef) THEN s
    ELSE
    LET currentDragInfo == Val(s.dragInfoRef)
        confirm(st) == [st EXCEPT !.dragInfoRef =
                                      Some([currentDragInfo EXCEPT !.isDragging = TRUE]),
                                  !.isMoving = TRUE]
    IN  IF e.isTouch /\ ~currentDragInfo.isDragging
                     /\ ~IsNull(currentDragInfo.touchStartPos)
        THEN IF Len(e.touches) = 0
             THEN [s EXCEPT !.threw = TRUE]
             ELSE LET touch == e.touches[1]
                      origin == Val(currentDragInfo.touchStartPos)
                      dx == Abs(touch.clientX - origin.clientX)
                      dy == Abs(touch.clientY - origin.clientY)
                  IN  IF dx > threshold \/ dy > threshold
                      THEN IF dy >= dx
                           THEN MathGrid_handleDragEnd(s, c)
                           ELSE EmitMove(confirm(s), c,
                                         [currentDragInfo EXCEPT !.isDragging = TRUE], e)
                      ELSE s
        ELSE IF ~e.isTouch /\ ~currentDragInfo.isDragging
             THEN EmitMove(confirm(s), c,
                           [currentDragInfo EXCEPT !.isDragging = TRUE], e)
             ELSE EmitMove(s, c, currentDragInfo, e)

\* Variant of handleDragMove that suppresses the default action of a
\* touch-move before it classifies the gesture.
handleDragMove_PreventsFirst(s, c, e) ==
    IF IsNull(s.dragInfoRef) THEN s
    ELSE
    LET currentDragInfo == Val(s.dragInfoRef)
        confirm(st) == [st EXCEPT !.dragInfoRef =
                                      Some([currentDragInfo EXCEPT !.isDragging = TRUE]),
                                  !.isMoving = TRUE]
    IN  IF e.isTouch /\ ~currentDragInfo.isDragging
                     /\ ~IsNull(currentDragInfo.touchStartPos)
        THEN IF Len(e.touches) = 0
             THEN [s EXCEPT !.threw = TRUE]
             ELSE LET touch == e.touches[1]
                      origin == Val(currentDragInfo.touchStartPos)
                      dx == Abs(touch.clientX - origin.clientX)
                      dy == Abs(touch.clientY - origin.clientY)
                      s0 == [s EXCEPT !.prevented = TRUE]
                  IN  IF dx > threshold \/ dy > threshold
                      THEN IF dy > dx
                           THEN MathGrid_handleDragEnd(s0, c)
                           ELSE EmitMove(confirm(s), c,
                                         [currentDragInfo EXCEPT !.isDragging = TRUE], e)
                      ELSE s0
        ELSE IF ~e.isTouch /\ ~currentDragInfo.isDragging
             THEN EmitMove(confirm(s), c,
                           [currentDragInfo EXCEPT !.isDragging = TRUE], e)
             ELSE EmitMove(s, c, currentDragInfo, e)

handleDragMove(s, c, e) ==
    IF IsNull(s.dragInfoRef) THEN s
    ELSE
    LET currentDragInfo == Val(s.dragInfoRef)
        confirm(st) == [st EXCEPT !.dragInfoRef =
                                      Some([currentDragInfo EXCEPT !.isDragging = TRUE]),
                                  !.isMoving = TRUE]
    IN  IF e.isTouch /\ ~currentDragInfo.isDragging
                     /\ ~IsNull(currentDragInfo.touchStartPos)
        THEN IF Len(e.touches) = 0
             THEN [s EXCEPT !.threw = TRUE]     \* touch is undefined
             ELSE LET touch == e.touches[1]
                      origin == Val(currentDragInfo.touchStartPos)
                      dx == Abs(touch.clientX - origin.clientX)
                      dy == Abs(touch.clientY - origin.clientY)
                  IN  IF dx > threshold \/ dy > threshold
                      THEN IF dy > dx
                           THEN MathGrid_handleDragEnd(s, c)
                           ELSE EmitMove(confirm(s), c,
                                         [currentDragInfo EXCEPT !.isDragging = TRUE], e)
                      ELSE s
        ELSE IF ~e.isTouch /\ ~currentDragInfo.isDragging
             THEN EmitMove(confirm(s), c,
                           [currentDragInfo EXCEPT !.isDragging = TRUE], e)
             ELSE EmitMove(s, c, currentDragInfo, e)

\* window.addEventListener for the closure pair of the current render: a
\* listener that is already registered is not registered twice.
addEventListeners(s) ==
    IF \E i \in 1..Len(s.listeners) : s.listeners[i].current
    THEN s.listeners
    ELSE Append(s.listeners, [history |-> s.history, current |-> TRUE])

\* Variant of handleDragStart without the animation guard.
handleDragStart_NoAnimationGuard(s, e, type, index) ==
    LET s1 == [s EXCEPT !.isMoving = FALSE]
        startPos == getCoordsFromEvent(e)
    IN  IF IsNull(startPos) THEN s1
        ELSE LET newDragInfo ==
                     [type |-> type,
                      index |-> index,
                      startPos |-> Val(startPos),
                      initialPoints |-> s.points,
                      isDragging |-> FALSE,
                      touchStartPos |->
                          IF e.isTouch
                          THEN Some(Touch(e.touches[1].clientX,
                                          e.touches[1].clientY))
                          ELSE Null]
             IN  [s1 EXCEPT
                   !.dragInfo = Some([type |-> type, index |-> index]),
                   !.dragInfoRef = Some(newDragInfo),
                   !.latestDraggedPointsRef = Some(s.points),
                   !.listeners = addEventListeners(s)]

handleDragStart(s, e, type, index) ==
    IF ~IsNull(s.animation) THEN s
    ELSE LET s1 == [s EXCEPT !.isMoving = FALSE]
             startPos == getCoordsFromEvent(e)
         IN  IF IsNull(startPos) THEN s1
             ELSE LET newDragInfo ==
                          [type |-> type,
                           index |-> index,
                           startPos |-> Val(startPos),
                           initialPoints |-> s.points,
                           isDragging |-> FALSE,
                           touchStartPos |->
                               IF e.isTouch
                               THEN Some(Touch(e.touches[1].clientX,
                                               e.touches[1].clientY))
                               ELSE Null]
                  IN  [s1 EXCEPT
                        !.dragInfo = Some([type |-> type, index |-> index]),
                        !.dragInfoRef = Some(newDragInfo),
                        !.latestDraggedPointsRef = Some(s.points),
                        !.listeners = addEventListeners(s)]

----------------------------------------------------------------------------
(* The window dispatching an event to the registered listeners, in the     *)
(* order of registration.  `todo` are the closure pairs still to run and   *)
(* `kept` those that ran and stayed registered.                            *)

RECURSIVE DispatchMove(_, _, _, _)
DispatchMove(s, todo, kept, e) ==
    IF todo = <<>> THEN [s EXCEPT !.listeners = kept]
    ELSE LET c == Head(todo)
             r == handleDragMove([s EXCEPT !.removed = FALSE], c, e)
         IN  DispatchMove(r, Tail(todo),
                          IF r.removed THEN kept ELSE Append(kept, c), e)

RECURSIVE DispatchEnd(_, _, _)
DispatchEnd(s, todo, kept) ==
    IF todo = <<>> THEN [s EXCEPT !.listeners = kept]
    ELSE LET c == Head(todo)
             r == MathGrid_handleDragEnd([s EXCEPT !.removed = FALSE], c)
         IN  DispatchEnd(r, Tail(todo),
                         IF r.removed THEN kept ELSE Append(kept, c))

----------------------------------------------------------------------------
(* Controls.tsx *)

\* disabled={!isShapeComplete || isAnimating} of the Apply button, with
\* isShapeComplete={points.length === 4}.
ApplyButtonDisabled == ~(Len(points) = 4) \/ isAnimating

\* disabled={isAnimating} of the Reset button.
ResetButtonDisabled == isAnimating

\* disabled={isAnimating} of the angle, axis and translation controls.
ParameterControlsDisabled == isAnimating

----------------------------------------------------------------------------
(* The inputs explored.  Client coordinates are CSS pixels; with `rect`    *)
(* the grid point (gx, gy) lies at (10 + 20 * (gx + 10), 30 + 20 * (10 - gy)). *)

\* Background clicks.  The i-th point of a shape is clicked at the i-th
\* position of one of the paths given; this one path is
\*   grid (3,3), (1,1), (3,1) and (0.5, 2.5), which Math.round takes to (1,3).
ClickPaths ==
    << << <<270, 170>>, <<230, 210>>, <<270, 210>>, <<220, 180>> >> >>

ClickTargets(paths) ==
    LET i == IF Len(points) >= 4 THEN 1 ELSE Len(points) + 1
    IN  { paths[k][i] : k \in 1..Len(paths) }

\* Pointer-down positions: grid (2,2).
StartTargets == { <<250, 190>> }

\* Pointer-move positions, as seen from the pointer-down position:
\*   (+40, 0) px: grid (+2, 0)
\*   (+3, +8) px: |dy| > threshold and |dy| > |dx|; grid (+0.15, -0.4)
MoveTargets == { <<290, 190>>, <<253, 198>> }

\* (type, params) the controls can send (Controls.tsx:19-33).
ApplyInputs ==
    { [type |-> "Rotate",    params |-> [angle |-> 90]],
      [type |-> "Reflect",   params |-> [axis |-> "y"]],
      [type |-> "Translate", params |-> [tx |-> 2 * Unit, ty |-> 4]] }

\* Entries of the log the user clicks (TransformationLog.tsx, onHighlight(i)).
HighlightIndices == { 0 }

MouseEvents(targets) == { MouseEvent(t[1], t[2]) : t \in targets }
TouchEvents(targets) == { TouchEvent(<<Touch(t[1], t[2])>>) : t \in targets }
PointerEvents(targets) == MouseEvents(targets) \cup TouchEvents(targets)

\* What is rendered with a pointer-down handler: one circle per point and,
\* for four points, the polygon (part_000:355-365, 413-421).
HitTargets ==
    { [type |-> "point", index |-> i - 1] : i \in 1..Len(points) }
        \cup (IF Len(points) = 4 THEN { [type |-> "shape", index |-> -1] } ELSE {})

----------------------------------------------------------------------------
(* The state machine *)

NoEvent ==
    [op |-> "init",
     pre |-> [isAnimating |-> FALSE, animation |-> FALSE, session |-> FALSE,
              dragInfo |-> FALSE, n |-> 0, preview |-> FALSE, highlight |-> FALSE],
     prevented |-> FALSE, threw |-> FALSE,
     live |-> <<>>, commits |-> <<>>, run |-> <<>>]

Init ==
    /\ points = <<>>
    /\ transformedPoints = Null
    /\ history = <<>>
    /\ highlightedPointIndex = Null
    /\ animation = Null
    /\ isAnimating = FALSE
    /\ timers = <<>>
    /\ clock = 0
    /\ dragInfo = Null
    /\ isMoving = FALSE
    /\ dragInfoRef = Null
    /\ latestDraggedPointsRef = Null
    /\ listeners = <<>>
    /\ clearTimers = 0
    /\ gestures = 0
    /\ ev = NoEvent

\* What the state was when the event arrived.
Pre ==
    [isAnimating |-> isAnimating,
     animation |-> ~IsNull(animation),
     session |-> ~IsNull(dragInfoRef),
     dragInfo |-> ~IsNull(dragInfo),
     n |-> Len(points),
     preview |-> ~IsNull(transformedPoints),
     highlight |-> ~IsNull(highlightedPointIndex)]

\* The entries made by the Apply requests that completed one after the
\* other, with no other event in between.
Run(op, s) ==
    CASE op = "complete" -> Append(ev.run, s.history[1].id)
      [] op = "apply"    -> ev.run
      [] OTHER           -> <<>>

\* What is recorded of the event `op`, which took the program to `s`.
Observed(op, s) ==
    [op |-> op, pre |-> Pre,
     prevented |-> s.prevented, threw |-> s.threw,
     live |-> s.live, commits |-> s.commits, run |-> Run(op, s)]

\* The program state after an event that took the program to `s`.  After a
\* setHistory the next render makes new closures: none of the registered
\* ones is the current one any more.
Effects(s) ==
    /\ points' = s.points
    /\ transformedPoints' = s.transformedPoints
    /\ history' = s.history
    /\ highlightedPointIndex' = s.highlightedPointIndex
    /\ animation' = s.animation
    /\ isAnimating' = s.isAnimating
    /\ timers' = s.timers
    /\ clock' = s.clock
    /\ dragInfo' = s.dragInfo
    /\ isMoving' = s.isMoving
    /\ dragInfoRef' = s.dragInfoRef
    /\ latestDraggedPointsRef' = s.latestDraggedPointsRef
    /\ listeners' = IF s.rerender
                    THEN [i \in 1..Len(s.listeners) |->
                            [s.listeners[i] EXCEPT !.current = FALSE]]
                    ELSE s.listeners
    /\ clearTimers' = s.clearTimers

\* The state after the event `op`, which took the program to `s`.
Commit(op, s) ==
    /\ Effects(s)
    /\ ev' = Observed(op, s)

\* The same, the event object `e` being recorded with what it did.
CommitInput(op, e, s) ==
    /\ Effects(s)
    /\ ev' = Observed(op, s) @@ [e |-> e]

\* A click on the svg background.
BackgroundClick(paths) ==
    \E t \in ClickTargets(paths) :
        /\ Commit("click", handleGridBackgroundClick(Store, MouseEvent(t[1], t[2])))
        /\ UNCHANGED gestures

\* mousedown or touchstart on a point's circle or on the polygon.
PointerDown(events, maxGestures) ==
    /\ gestures < maxGestures
    /\ Len(listeners) < MaxListeners
    /\ clearTimers + Len(listeners) < MaxPendingClears
    /\ \E e \in events, h \in HitTargets :
          LET s == handleDragStart(Store, e, h.type, h.index)
          IN  /\ Commit("down", s)
              /\ gestures' = IF \/ s.dragInfoRef # dragInfoRef
                                \/ Len(s.listeners) > Len(listeners)
                             THEN gestures + 1 ELSE gestures

\* mousemove or touchmove on window.
PointerMove(events) ==
    /\ listeners # <<>>
    /\ \E e \in events : Commit("move", DispatchMove(Store, listeners, <<>>, e))
    /\ UNCHANGED gestures

\* mouseup or touchend on window.
PointerUp ==
    /\ listeners # <<>>
    /\ Commit("up", DispatchEnd(Store, listeners, <<>>))
    /\ UNCHANGED gestures

\* The callback of setTimeout(() => setDragInfo(null), 0) (part_000:93).
ClearDragInfo ==
    /\ clearTimers > 0
    /\ Commit("clear", [Store EXCEPT !.dragInfo = Null,
                                     !.clearTimers = clearTimers - 1])
    /\ UNCHANGED gestures

\* onApply(type, params).
Apply(inputs, maxApplies) ==
    /\ clock < 2 * maxApplies
    /\ \E a \in inputs :
          Commit("apply", handleApplyTransform(Store, a.type, a.params))
    /\ UNCHANGED gestures

\* The callback of setTimeout(..., 750) (part_001:153-188).
AnimationTimeout ==
    /\ timers # <<>>
    /\ Commit("complete", RunCompletion(Store))
    /\ UNCHANGED gestures

\* onReset().
Reset ==
    /\ Commit("reset", handleReset(Store))
    /\ UNCHANGED gestures

\* onHighlight(i): a click on the i-th derivation of a log entry.
Highlight(indices) ==
    /\ history # <<>>
    /\ \E i \in indices : Commit("highlight", handleHighlightPoint(Store, i))
    /\ UNCHANGED gestures

\* The core driven through its interface (spec section 6): any collaborator
\* may call applyTransformation and reset at any time.
Next ==
    \/ BackgroundClick(ClickPaths)
    \/ PointerDown(PointerEvents(StartTargets), MaxGestures)
    \/ PointerMove(PointerEvents(MoveTargets))
    \/ PointerUp
    \/ ClearDragInfo
    \/ Apply(ApplyInputs, MaxApplies)
    \/ AnimationTimeout
    \/ Reset
    \/ Highlight(HighlightIndices)

Spec == Init /\ [][Next]_vars

\* The core driven by Controls.tsx: a disabled button sends nothing.
NextUI ==
    \/ BackgroundClick(ClickPaths)
    \/ PointerDown(PointerEvents(StartTargets), MaxGestures)
    \/ PointerMove(PointerEvents(MoveTargets))
    \/ PointerUp
    \/ ClearDragInfo
    \/ ~ApplyButtonDisabled /\ Apply(ApplyInputs, MaxApplies)
    \/ AnimationTimeout
    \/ ~ResetButtonDisabled /\ Reset
    \/ Highlight(HighlightIndices)

SpecUI == Init /\ [][NextUI]_vars

\* The history followed over MaxAppliesLog requests; the one gesture is a
\* mouse drag.
NextLog ==
    \/ BackgroundClick(ClickPaths)
    \/ PointerDown(MouseEvents(StartTargets), MaxGestures)
    \/ PointerMove(MouseEvents({ <<290, 190>> }))
    \/ PointerUp
    \/ ClearDragInfo
    \/ Apply(ApplyInputs, MaxAppliesLog)
    \/ AnimationTimeout
    \/ Reset
    \/ Highlight(HighlightIndices)

SpecLog == Init /\ [][NextLog]_vars

\* Clicks at grid (2,2), (0,0), (0,2), (2,0).
ClickPathsDrag ==
    << << <<250, 190>>, <<210, 230>>, <<210, 190>>, <<250, 230>> >> >>

\* Rotate by 90 degrees, the controls' initial selection (Controls.tsx:13-14).
ApplyInputsDrag == { [type |-> "Rotate", params |-> [angle |-> 90]] }

\* Gestures that follow or overlap each other, around one Apply request.
NextDrag ==
    \/ BackgroundClick(ClickPathsDrag)
    \/ PointerDown(PointerEvents(StartTargets), MaxGesturesDrag)
    \/ PointerMove(PointerEvents(MoveTargets))
    \/ PointerUp
    \/ ClearDragInfo
    \/ Apply(ApplyInputsDrag, MaxAppliesDrag)
    \/ AnimationTimeout
    \/ Reset

SpecDrag == Init /\ [][NextDrag]_vars

\* One gesture around one Apply request, with the timer of an
\* accepted request bound to fire: the callback of setTimeout(..., 750) runs
\* once its delay has passed, and nothing in the program cancels it.
NextLive ==
    \/ BackgroundClick(ClickPathsDrag)
    \/ PointerDown(PointerEvents(StartTargets), MaxGestures)
    \/ PointerMove(PointerEvents(MoveTargets))
    \/ PointerUp
    \/ ClearDragInfo
    \/ Apply(ApplyInputsDrag, MaxAppliesDrag)
    \/ AnimationTimeout
    \/ Reset

SpecLive == Init /\ [][NextLive]_vars /\ WF_vars(AnimationTimeout)

\* An event for which getCoordsFromEvent returns null: a touch event whose
\* `touches` list is empty.
NullEvent == TouchEvent(<<>>)

\* A click, a pointer-down and a pointer-move whose event maps to no position.
BackgroundClickNull ==
    /\ Commit("click0", handleGridBackgroundClick(Store, NullEvent))
    /\ UNCHANGED gestures

PointerDownNull ==
    /\ \E h \in HitTargets :
          Commit("down0", handleDragStart(Store, NullEvent, h.type, h.index))
    /\ UNCHANGED gestures

PointerMoveNull ==
    /\ listeners # <<>>
    /\ Commit("move0", DispatchMove(Store, listeners, <<>>, NullEvent))
    /\ UNCHANGED gestures

\* One gesture around one Apply request, with events that map to no
\* position among the others.
NextNull ==
    \/ BackgroundClick(ClickPathsDrag)
    \/ BackgroundClickNull
    \/ PointerDown(PointerEvents(StartTargets), MaxGestures)
    \/ PointerDownNull
    \/ PointerMove(PointerEvents(MoveTargets))
    \/ PointerMoveNull
    \/ PointerUp
    \/ ClearDragInfo
    \/ Apply(ApplyInputsDrag, MaxAppliesDrag)
    \/ AnimationTimeout
    \/ Reset

SpecNull == Init /\ [][NextNull]_vars

\* The client position of the grid point (gx, gy): the inverse of
\* getCoordsFromEvent for `rect`.
ClientPos(gx, gy) ==
    << rect.left + ((gx - viewBox.x) * rect.width) \div viewBox.width,
       rect.top + rect.height - ((gy - viewBox.y) * rect.height) \div viewBox.height >>

\* Every click may go to any grid point of 0..MaxCoordSort x 0..MaxCoordSort.
ClickPathsSort ==
    LET n == MaxCoordSort + 1
    IN  [k \in 1..(n * n) |->
            [i \in 1..4 |-> ClientPos((k - 1) % n, (k - 1) \div n)]]

\* Background clicks alone: every sequence of clicked grid points.
NextSort == BackgroundClick(ClickPathsSort)

SpecSort == Init /\ [][NextSort]_vars

\* Pointer-move positions, as seen from the pointer-down position:
\*   ( 0,  0) px: the pointer-down position itself
\*   (+5, +5) px: neither |dx| nor |dy| exceeds the threshold
\*   (+6, +6) px: both exceed it and |dx| = |dy|; grid (+0.3, -0.3)
\*   (+2, +6) px: |dy| exceeds it and |dy| > |dx|
\*   (+40, 0) px: grid (+2, 0)
MoveTargetsTouch ==
    { <<250, 190>>, <<255, 195>>, <<256, 196>>, <<252, 196>>, <<290, 190>> }

\* mousedown or touchstart, the event being recorded.
PointerDownInput(events, maxGestures) ==
    /\ gestures < maxGestures
    /\ Len(listeners) < MaxListeners
    /\ clearTimers + Len(listeners) < MaxPendingClears
    /\ \E e \in events, h \in HitTargets :
          LET s == handleDragStart(Store, e, h.type, h.index)
          IN  /\ CommitInput("down", e, s)
              /\ gestures' = IF \/ s.dragInfoRef # dragInfoRef
                                \/ Len(s.listeners) > Len(listeners)
                             THEN gestures + 1 ELSE gestures

\* mousemove or touchmove on window, the event being recorded.
PointerMoveInput(events) ==
    /\ listeners # <<>>
    /\ \E e \in events :
          CommitInput("move", e, DispatchMove(Store, listeners, <<>>, e))
    /\ UNCHANGED gestures

\* One gesture, started by mouse or by touch and moved by either, around
\* one Apply request.
NextTouch ==
    \/ BackgroundClick(ClickPathsDrag)
    \/ PointerDownInput(PointerEvents(StartTargets), MaxGestures)
    \/ PointerMoveInput(PointerEvents(MoveTargetsTouch))
    \/ PointerUp
    \/ ClearDragInfo
    \/ Apply(ApplyInputsDrag, MaxAppliesDrag)
    \/ AnimationTimeout
    \/ Reset

SpecTouch == Init /\ [][NextTouch]_vars

----------------------------------------------------------------------------
(* Properties *)

\* A grid point given in whole units.
G(x, y) == Pt(x * Unit, y * Unit)

\* The source of an Apply request: the preview if there is one, else the base.
SourcePoints ==
    IF ~IsNull(transformedPoints) THEN Val(transformedPoints) ELSE points

\* C1: a DragSession (dragInfoRef.current) and an AnimationRequest
\* (animation) are never active at the same time.
C1_DragExcludesAnimation ==
    ~(~IsNull(dragInfoRef) /\ ~IsNull(animation))

\* C2: the base PointSet never has more than 4 points.
C2_AtMostFourPoints ==
    Len(points) \in 0..4

\* C2, its case: a click on a complete shape (the would-be fifth point)
\* was accepted and started a new shape.
C2_FifthClickSeen ==
    /\ ev.op = "click"
    /\ ev.pre.n = 4
    /\ ~ev.pre.dragInfo /\ ~ev.pre.animation
    /\ Len(points) = 1

\* C3: history never holds more than 2 entries, and after two or more Apply
\* requests completed one after the other (three, in SpecLog) history[0] is
\* the entry of the last of them and history[1] the entry of the one before.
C3_HistoryCappedNewestFirst ==
    /\ Len(history) <= 2
    /\ Len(ev.run) >= 2 =>
          /\ Len(history) = 2
          /\ history[1].id = ev.run[Len(ev.run)]
          /\ history[2].id = ev.run[Len(ev.run) - 1]

\* C3, its case: three Apply requests completed one after the other.
C3_ThreeAppliesSeen ==
    /\ Len(ev.run) = 3
    /\ Len(history) = 2

\* C4: when a completion runs, base becomes the preview the request started
\* from (or stays as it is when there was none), so that base equals the
\* request's `from` and preview its `to`; one entry is prepended to the
\* history, the request is cleared and isAnimating is false.
C4_CompletionCommitsRequest ==
    [][ev'.op = "complete" =>
          LET request == Val(animation)
              t == Head(timers)
          IN  /\ points' = IF ~IsNull(t.transformedPoints)
                           THEN Val(t.transformedPoints) ELSE points
              /\ points' = request.from
              /\ transformedPoints' = Some(request.to)
              /\ Len(history') = IF Len(history) < 2 THEN Len(history) + 1 ELSE 2
              /\ history'[1].id = clock'
              /\ Len(history) >= 1 => history'[2] = history[1]
              /\ IsNull(animation') /\ ~isAnimating' /\ timers' = <<>>]_vars

\* C5: an Apply request that arrives while isAnimating changes nothing, and
\* at most one completion is pending, that of the active request.
C5_ApplyWhileAnimatingIgnored ==
    /\ [](/\ Len(timers) <= 1
          /\ timers # <<>> =>
                /\ isAnimating /\ ~IsNull(animation)
                /\ Val(animation).from = Head(timers).sourcePoints
                /\ Val(animation).to = RoundPoints2(Head(timers).newPoints))
    /\ [][(ev'.op = "apply" /\ isAnimating) =>
              UNCHANGED <<points, transformedPoints, history,
                          highlightedPointIndex, animation, isAnimating,
                          timers, clock>>]_vars

\* C5, its case: an Apply request arrived while a request was in flight and
\* a point was highlighted.
C5_ApplyWhileAnimatingSeen ==
    /\ ev.op = "apply"
    /\ ev.pre.isAnimating
    /\ ev.pre.highlight

\* C6: a pointer-down on a point or on the shape while an AnimationRequest
\* is in flight creates no DragSession, registers no listener and leaves
\* the PointSet as it is.
C6_DragStartWhileAnimatingIgnored ==
    [][(ev'.op = "down" /\ ~IsNull(animation)) =>
          UNCHANGED <<dragInfo, dragInfoRef, latestDraggedPointsRef,
                      listeners, points>>]_vars

\* C6, its case: a pointer-down arrived while a request was in flight.
C6_DragStartWhileAnimatingSeen ==
    /\ ev.op = "down"
    /\ ev.pre.animation
    /\ IsNull(dragInfoRef)

\* C7: an Apply request that is not ignored for isAnimating takes the
\* preview, else the base, as its source; when that source has not exactly
\* 4 points the request changes nothing.
C7_ApplyNeedsFourSourcePoints ==
    [][(ev'.op = "apply" /\ ~isAnimating) =>
          IF Len(SourcePoints) # 4
          THEN UNCHANGED <<points, transformedPoints, history,
                           highlightedPointIndex, animation, isAnimating,
                           timers, clock>>
          ELSE /\ isAnimating'
               /\ Val(animation').from = SourcePoints
               /\ Len(timers') = Len(timers) + 1]_vars

\* C7, its case: an Apply request arrived with fewer than 4 base points, no
\* preview and no request in flight.
C7_ApplyOnIncompleteShapeSeen ==
    /\ ev.op = "apply"
    /\ ~ev.pre.isAnimating
    /\ ~ev.pre.preview
    /\ ev.pre.n \in 1..3
    /\ ~isAnimating

\* C7, its other case: an Apply request took the preview as its source.
C7_ApplyFromPreviewSeen ==
    /\ ev.op = "apply"
    /\ ~ev.pre.isAnimating
    /\ ev.pre.preview
    /\ isAnimating

\* C8: a drag commit changes only the most recent history entry: the length
\* and history[1] stay, history[0] keeps type, params and description, its
\* originalPoints become the committed PointSet, its transformedPoints and
\* derivation are recomputed from it; with an empty history nothing changes.
C8_DragCommitUpdatesNewestEntry ==
    [][(ev'.op = "up" /\ ev'.commits # <<>>) =>
          LET finalPoints == ev'.commits[1]
          IN  /\ Len(history') = Len(history)
              /\ Len(history) = 2 => history'[2] = history[2]
              /\ Len(history) >= 1 =>
                    /\ history'[1].id = history[1].id
                    /\ history'[1].type = history[1].type
                    /\ history'[1].params = history[1].params
                    /\ history'[1].description = history[1].description
                    /\ history'[1].originalPoints = finalPoints
                    /\ history'[1].transformedPoints =
                          applyTransform(finalPoints, history[1].type,
                                         history[1].params)
                    /\ history'[1].math =
                          generateMath(finalPoints, history[1].type,
                                       history[1].params)]_vars

\* C9, the scenario.
Square9 == << G(1, 1), G(3, 1), G(3, 3), G(1, 3) >>
Square9Reflected == << G(-1, 1), G(-3, 1), G(-3, 3), G(-1, 3) >>
Square9Dragged == << G(3, 1), G(5, 1), G(5, 3), G(3, 3) >>

\* The completion of Reflect across the y-axis on the base Square9.
C9_ReflectCompletes ==
    /\ ev'.op = "complete"
    /\ points = Square9
    /\ Head(timers).type = "Reflect"
    /\ Head(timers).params.axis = "y"
    /\ Head(timers).sourcePoints = Square9
    /\ IsNull(Head(timers).transformedPoints)

\* The commit of a drag of the shape by (+2, 0), the gesture having started
\* after that completion, with its entry the only one.
C9_DragCommits ==
    /\ ev'.op = "up"
    /\ Len(history) = 1
    /\ history[1].type = "Reflect"
    /\ history[1].params.axis = "y"
    /\ history[1].originalPoints = Square9
    /\ listeners = << [history |-> history, current |-> TRUE] >>
    /\ ~IsNull(dragInfoRef)
    /\ Val(dragInfoRef).type = "shape"
    /\ Val(dragInfoRef).initialPoints = Square9
    /\ ev'.commits = << Square9Dragged >>

\* C9 as claimed: the entry's transformedPoints become the old preview
\* shifted by (+2, 0).
C9_AsClaimed ==
    [][/\ C9_ReflectCompletes => transformedPoints' = Some(Square9Reflected)
       /\ C9_DragCommits =>
             /\ Len(history') = 1
             /\ history'[1].originalPoints = Square9Dragged
             /\ history'[1].transformedPoints =
                   << G(1, 1), G(-1, 1), G(-1, 3), G(1, 3) >>]_vars

\* C9 as amended: reflecting Square9 across the y-axis gives the preview
\* [(-1,1),(-3,1),(-3,3),(-1,3)]; dragging the shape by (+2, 0) then makes
\* the single entry's originalPoints [(3,1),(5,1),(5,3),(3,3)] and its
\* transformedPoints their reflection [(-3,1),(-5,1),(-5,3),(-3,3)], with
\* no second entry.
C9_ReflectThenDragShape ==
    [][/\ C9_ReflectCompletes => transformedPoints' = Some(Square9Reflected)
       /\ C9_DragCommits =>
             /\ Len(history') = 1
             /\ history'[1].originalPoints = Square9Dragged
             /\ history'[1].transformedPoints =
                   << G(-3, 1), G(-5, 1), G(-5, 3), G(-3, 3) >>
             /\ transformedPoints' = Some(history'[1].transformedPoints)]_vars

\* C9, its case: the scenario has run to the commit.
C9_ScenarioSeen ==
    /\ ev.op = "up"
    /\ ev.commits = << Square9Dragged >>
    /\ ev.pre.session /\ ~ev.pre.isAnimating
    /\ points = Square9Dragged
    /\ Len(history) = 1
    /\ history[1].type = "Reflect"
    /\ history[1].params.axis = "y"
    /\ history[1].originalPoints = Square9Dragged

\* C10: right after a Reset, in whatever state it arrived, the base PointSet
\* is empty, the preview null, the history empty and no point highlighted.
C10_ResetClears ==
    ev.op = "reset" =>
        /\ points = <<>>
        /\ IsNull(transformedPoints)
        /\ history = <<>>
        /\ IsNull(highlightedPointIndex)

\* C10, its case: a Reset arrived mid-gesture, while a request was in
\* flight, with a complete shape, a preview and a highlighted point.
C10_ResetWhileBusySeen ==
    /\ ev.op = "reset"
    /\ ev.pre.isAnimating
    /\ ev.pre.session
    /\ ev.pre.n = 4
    /\ ev.pre.preview
    /\ ev.pre.highlight

\* C11: a Reset that arrives while a DragSession is pending or active ends
\* it and releases its window listeners: after the Reset dragInfoRef is null,
\* no listener is registered, and a move event that follows emits no live
\* update.
C11_ResetEndsDragSession ==
    [][/\ ev'.op = "reset" => IsNull(dragInfoRef') /\ listeners' = <<>>
       /\ (ev.op = "reset" /\ ev'.op = "move") => ev'.live = <<>>]_vars

\* C12: a background click that arrives while a DragSession or an
\* AnimationRequest is active adds no point and changes no state.
C12_ClickIgnoredWhileBusy ==
    [][(ev'.op = "click" /\ (~IsNull(dragInfoRef) \/ ~IsNull(animation))) =>
          UNCHANGED <<appVars, gridVars>>]_vars

\* The point a click at client position t hands to onGridClick.
ClickedPoint(t) ==
    LET coords == Val(getCoordsFromEvent(MouseEvent(t[1], t[2])))
    IN  Pt(MathRound(coords.x), MathRound(coords.y))

\* How often x occurs in the sequence s.
Count(s, x) == Cardinality({ i \in 1..Len(s) : s[i] = x })

\* b holds the elements of a, each as often, in some order.
IsPermutation(a, b) ==
    /\ Len(a) = Len(b)
    /\ \A i \in 1..Len(a) : Count(b, a[i]) = Count(a, a[i])

\* C13: an accepted background click on 4 base points leaves the clicked
\* point as the only base point, the preview null and the history empty; on
\* fewer than 4 it adds the clicked point at the end (the fourth point is
\* followed by the reordering of the four) and leaves preview and history.
C13_ClickReplacesOrAppends ==
    [][(ev'.op = "click" /\ IsNull(dragInfo) /\ IsNull(animation)) =>
          \E t \in ClickTargets(ClickPaths) :
              LET point == ClickedPoint(t)
              IN  IF Len(points) >= 4
                  THEN /\ points' = << point >>
                       /\ IsNull(transformedPoints')
                       /\ history' = <<>>
                  ELSE /\ IF Len(points) < 3
                          THEN points' = Append(points, point)
                          ELSE IsPermutation(Append(points, point), points')
                       /\ UNCHANGED <<transformedPoints, history>>]_vars

\* C13, its case: a click was accepted on 4 base points with a preview and a
\* history entry, and left one point and nothing else.
C13_ClickOnCompleteShapeSeen ==
    /\ ev.op = "click"
    /\ ev.pre.n = 4 /\ ev.pre.preview
    /\ ~ev.pre.dragInfo /\ ~ev.pre.animation
    /\ Len(points) = 1
    /\ history = <<>>

\* C15: a pointer-down that arrives while a DragSession is active leaves the
\* session's initialPoints, startPos, type and index as they were.
C15_SecondStartKeepsSession ==
    [][(ev'.op = "down" /\ ~IsNull(dragInfoRef)) =>
          /\ ~IsNull(dragInfoRef')
          /\ Val(dragInfoRef').initialPoints = Val(dragInfoRef).initialPoints
          /\ Val(dragInfoRef').startPos = Val(dragInfoRef).startPos
          /\ Val(dragInfoRef').type = Val(dragInfoRef).type
          /\ Val(dragInfoRef').index = Val(dragInfoRef).index]_vars

\* C16: whenever no DragSession is active, no move or up listener of the
\* grid is registered on window.
C16_NoListenerWithoutSession ==
    IsNull(dragInfoRef) => listeners = <<>>

\* C17: live updates are emitted by move events only, each within the
\* event that causes it, and the last one is the session's latest PointSet;
\* a commit is emitted by an up event only, once, after the live updates
\* (it carries the latest PointSet and ends the session); a move event
\* that finds no session emits nothing.
C17_LiveUpdatesThenOneCommit ==
    [][/\ ev'.live # <<>> =>
             /\ ev'.op = "move"
             /\ ~IsNull(dragInfoRef)
             /\ \A i \in 1..Len(ev'.live) : ev'.live[i] = ev'.live[1]
             /\ latestDraggedPointsRef' = Some(ev'.live[1])
             /\ points' = ev'.live[1]
       /\ ev'.commits # <<>> =>
             /\ ev'.op = "up"
             /\ Len(ev'.commits) = 1
             /\ ev'.live = <<>>
             /\ latestDraggedPointsRef = Some(ev'.commits[1])
             /\ IsNull(dragInfoRef') /\ IsNull(latestDraggedPointsRef')
       /\ (ev'.op \in {"move", "up"} /\ IsNull(dragInfoRef)) =>
             /\ ev'.live = <<>>
             /\ ev'.commits = <<>>
             /\ points' = points]_vars

\* C17, its case: the second gesture of a behaviour, confirmed by its move
\* events, was committed.
C17_CommitAfterLiveUpdatesSeen ==
    /\ ev.op = "up"
    /\ Len(ev.commits) = 1
    /\ ev.pre.session
    /\ points = ev.commits[1]
    /\ gestures = 2

\* Twice the signed area of the triangle a, b, c: positive for a left turn.
Orient(a, b, c) ==
    (b.x - a.x) * (c.y - a.y) - (b.y - a.y) * (c.x - a.x)

Sign(v) == IF v > 0 THEN 1 ELSE IF v < 0 THEN -1 ELSE 0

\* p lies on the closed segment a-b.
OnSegment(a, b, p) ==
    /\ Orient(a, b, p) = 0
    /\ (a.x <= p.x /\ p.x <= b.x) \/ (b.x <= p.x /\ p.x <= a.x)
    /\ (a.y <= p.y /\ p.y <= b.y) \/ (b.y <= p.y /\ p.y <= a.y)

\* The segments a-b and c-d cross at a point interior to both.
ProperlyCross(a, b, c, d) ==
    /\ Sign(Orient(a, b, c)) * Sign(Orient(a, b, d)) < 0
    /\ Sign(Orient(c, d, a)) * Sign(Orient(c, d, b)) < 0

\* The closed segments a-b and c-d have a point in common.
SegmentsMeet(a, b, c, d) ==
    \/ ProperlyCross(a, b, c, d)
    \/ OnSegment(a, b, c) \/ OnSegment(a, b, d)
    \/ OnSegment(c, d, a) \/ OnSegment(c, d, b)

\* The closed polygon ps[1] ps[2] ps[3] ps[4] is simple: opposite edges have
\* no point in common and neighbouring edges only their common vertex.
NoSelfIntersection(ps) ==
    /\ ~SegmentsMeet(ps[1], ps[2], ps[3], ps[4])
    /\ ~SegmentsMeet(ps[2], ps[3], ps[4], ps[1])
    /\ \A i \in 1..4 :
          LET a == ps[i]
              b == ps[(i % 4) + 1]
              c == ps[((i + 1) % 4) + 1]
          IN  a # b /\ ~OnSegment(b, c, a) /\ ~OnSegment(a, b, c)

\* No two edges of the closed polygon cross at a point interior to both.
NoCrossing(ps) ==
    /\ ~ProperlyCross(ps[1], ps[2], ps[3], ps[4])
    /\ ~ProperlyCross(ps[2], ps[3], ps[4], ps[1])

Distinct(ps) == \A i, j \in 1..Len(ps) : ps[i] = ps[j] => i = j

AllCollinear(ps) == \A i \in 1..Len(ps) : Orient(ps[1], ps[2], ps[i]) = 0

\* The fourth accepted click, at the grid point under t.
FourthClick(t) ==
    /\ ev'.op = "click"
    /\ Len(points) = 3
    /\ IsPermutation(Append(points, ClickedPoint(t)), points')

\* C14 as claimed: for any four clicked grid points, collinear or repeated
\* ones included, the PointSet after the fourth click is a permutation of
\* them whose closed polygon has no self-intersection.
C14_AsClaimed ==
    [][(ev'.op = "click" /\ Len(points) = 3) =>
          /\ \E t \in ClickTargets(ClickPathsSort) : FourthClick(t)
          /\ NoSelfIntersection(points')]_vars

\* C14 as amended: for any four clicked grid points the PointSet after the
\* fourth click is a permutation of them, and no two edges of its closed
\* polygon cross; when the four points are distinct and not on one line the
\* polygon has no self-intersection at all.
C14_SortedPolygonIsSimple ==
    [][(ev'.op = "click" /\ Len(points) = 3) =>
          /\ \E t \in ClickTargets(ClickPathsSort) : FourthClick(t)
          /\ NoCrossing(points')
          /\ (Distinct(points') /\ ~AllCollinear(points')) =>
                NoSelfIntersection(points')]_vars

\* C14, its case: the fourth click completed a concave quadrilateral (a
\* left and a right turn) of four distinct points.
C14_ConcaveShapeSeen ==
    /\ ev.op = "click"
    /\ ev.pre.n = 3
    /\ Len(points) = 4
    /\ Distinct(points)
    /\ \E i, j \in 1..4 :
          /\ Orient(points[i], points[(i % 4) + 1], points[((i + 1) % 4) + 1]) > 0
          /\ Orient(points[j], points[(j % 4) + 1], points[((j + 1) % 4) + 1]) < 0
    /\ NoSelfIntersection(points)

\* C18: every accepted Apply request completes: whenever isAnimating holds
\* (an AnimationRequest is set), the completion eventually runs, whatever
\* the user does meanwhile, and leaves animation null and isAnimating false.
C18_AnimationEventuallyCompletes ==
    /\ isAnimating ~> (ev.op = "complete" /\ ~isAnimating /\ IsNull(animation))
    /\ ~IsNull(animation) ~> IsNull(animation)

\* C18, its case: a completion ran on a request during which a Reset had
\* arrived and a gesture was active.
C18_CompletionAfterUserEventsSeen ==
    /\ ev.op = "complete"
    /\ ev.pre.isAnimating /\ ev.pre.session
    /\ ev.pre.n = 0
    /\ ~isAnimating /\ IsNull(animation)

\* C19: when the event maps to no position, a background click adds no
\* point, a pointer-down creates no DragSession and registers no listener,
\* and a pointer-move emits no live update and leaves the base PointSet, the
\* preview and the session's latest PointSet as they are.
C19_NullPositionSkipsUpdate ==
    [][/\ ev'.op = "click0" =>
             UNCHANGED <<points, transformedPoints, history>>
       /\ ev'.op = "down0" =>
             UNCHANGED <<dragInfo, dragInfoRef, latestDraggedPointsRef,
                         listeners, points>>
       /\ ev'.op = "move0" =>
             /\ ev'.live = <<>> /\ ev'.commits = <<>>
             /\ UNCHANGED <<points, transformedPoints,
                            latestDraggedPointsRef>>]_vars

\* C19, its case: a move event with no position arrived in a confirmed
\* drag whose latest PointSet differs from its baseline.
C19_NullMoveInDragSeen ==
    /\ ev.op = "move0"
    /\ ev.pre.session
    /\ ~IsNull(dragInfoRef)
    /\ Val(dragInfoRef).isDragging
    /\ latestDraggedPointsRef # Some(Val(dragInfoRef).initialPoints)
    /\ ev.prevented

\* C19, the other cases: a move event with no position arrived in an
\* unconfirmed touch session (touches[0] is undefined: the handler throws
\* before it asks for the position), and a null click arrived while the
\* grid accepts clicks.
C19_NullMoveThrowsSeen ==
    /\ ev.op = "move0"
    /\ ev.threw

C19_NullClickSeen ==
    /\ ev.op = "click0"
    /\ ~ev.pre.dragInfo /\ ~ev.pre.animation
    /\ ev.pre.n \in 1..3

\* C20, the scenario.
Square20 == << G(0, 0), G(2, 0), G(2, 2), G(0, 2) >>
Square20Rotated == << G(0, 0), G(0, 2), G(-2, 2), G(-2, 0) >>

\* C20: with base [(0,0),(2,0),(2,2),(0,2)] and no preview, the completion
\* of Rotate by 90 degrees makes the preview [(0,0),(0,2),(-2,2),(-2,0)]
\* and leaves the base as it is.
C20_RotateSquareBy90 ==
    [][(/\ ev'.op = "complete"
        /\ points = Square20
        /\ Head(timers).type = "Rotate"
        /\ Head(timers).params.angle = 90
        /\ Head(timers).sourcePoints = Square20
        /\ IsNull(Head(timers).transformedPoints)) =>
          /\ transformedPoints' = Some(Square20Rotated)
          /\ points' = Square20]_vars

\* C20, its case: the scenario has run to the completion.
C20_ScenarioSeen ==
    /\ ev.op = "complete"
    /\ ~ev.pre.preview
    /\ points = Square20
    /\ transformedPoints = Some(Square20Rotated)
    /\ Len(history) = 1
    /\ history[1].type = "Rotate"
    /\ history[1].originalPoints = Square20

\* The DragSession is touch-started and not yet confirmed as a drag.
PendingTouchSession ==
    /\ ~IsNull(dragInfoRef)
    /\ ~IsNull(Val(dragInfoRef).touchStartPos)
    /\ ~Val(dragInfoRef).isDragging

\* The absolute client-space displacements of the touch event e from the
\* session's touchOrigin.
TouchDx(e) ==
    Abs(e.touches[1].clientX - Val(Val(dragInfoRef).touchStartPos).clientX)
TouchDy(e) ==
    Abs(e.touches[1].clientY - Val(Val(dragInfoRef).touchStartPos).clientY)

\* C21: a touch-move that finds a touch-started, unconfirmed session, with
\* dx and dy its absolute displacements from touchOrigin: when neither
\* exceeds 5 the session stays as it is and nothing is emitted; when one
\* exceeds 5 and dy > dx the session is ended without a commit; otherwise
\* (dx >= dy) the session is marked confirmed.  A confirmed session stays
\* confirmed until it ends or a pointer-down starts another one.
C21_TouchClassification ==
    [][/\ (ev'.op = "move" /\ ev'.e.isTouch /\ PendingTouchSession) =>
             LET dx == TouchDx(ev'.e)
                 dy == TouchDy(ev'.e)
             IN  IF dx <= 5 /\ dy <= 5
                 THEN /\ dragInfoRef' = dragInfoRef
                      /\ ev'.live = <<>> /\ ev'.commits = <<>>
                      /\ UNCHANGED <<points, listeners, latestDraggedPointsRef>>
                 ELSE IF dy > dx
                 THEN /\ IsNull(dragInfoRef')
                      /\ ev'.live = <<>> /\ ev'.commits = <<>>
                 ELSE /\ ~IsNull(dragInfoRef')
                      /\ Val(dragInfoRef').isDragging
                      /\ dragInfoRef' = Some([Val(dragInfoRef) EXCEPT !.isDragging = TRUE])
       /\ (~IsNull(dragInfoRef) /\ Val(dragInfoRef).isDragging
                                /\ ~IsNull(dragInfoRef') /\ ev'.op # "down") =>
             Val(dragInfoRef').isDragging]_vars

\* C21, its case: a touch-move by (+6, +6) px (dx = dy, both above 5)
\* confirmed a touch-started session.
C21_EqualDisplacementConfirmsSeen ==
    /\ ev.op = "move"
    /\ ev.e = TouchEvent(<< Touch(256, 196) >>)
    /\ ~IsNull(dragInfoRef)
    /\ Val(dragInfoRef).touchStartPos = Some(Touch(250, 190))
    /\ Val(dragInfoRef).isDragging
    /\ Len(ev.live) = 1

\* C21, the other cases: a touch-move by (+5, +5) px left the session
\* pending, and one by (+2, +6) px ended it.
C21_PendingSeen ==
    /\ ev.op = "move"
    /\ ev.e = TouchEvent(<< Touch(255, 195) >>)
    /\ PendingTouchSession

C21_ScrollSeen ==
    /\ ev.op = "move"
    /\ ev.e = TouchEvent(<< Touch(252, 196) >>)
    /\ ev.pre.session
    /\ IsNull(dragInfoRef)

\* The touch event e, on the pending touch session, is classified as scroll.
ClassifiedAsScroll(e) ==
    /\ TouchDx(e) > 5 \/ TouchDy(e) > 5
    /\ TouchDy(e) > TouchDx(e)

\* C22: a touch-started session that is still pending has emitted nothing
\* (its latest PointSet is its baseline); a touch-move that leaves it
\* pending changes nothing and does not suppress the default action; the
\* touch-move classified as scroll emits no live update and no commit,
\* leaves the PointSet, the preview and the history as they are, does not
\* suppress the default action, and discards the session and the listener
\* that handled the event.
C22_ScrollAbortHasNoEffect ==
    /\ [](PendingTouchSession =>
             latestDraggedPointsRef = Some(Val(dragInfoRef).initialPoints))
    /\ [][(ev'.op = "move" /\ ev'.e.isTouch /\ PendingTouchSession) =>
             IF ClassifiedAsScroll(ev'.e)
             THEN /\ ev'.live = <<>> /\ ev'.commits = <<>>
                  /\ ~ev'.prevented
                  /\ UNCHANGED appVars
                  /\ IsNull(dragInfoRef') /\ IsNull(latestDraggedPointsRef')
                  /\ Len(listeners') < Len(listeners)
                  /\ ~isMoving'
             ELSE (TouchDx(ev'.e) <= 5 /\ TouchDy(ev'.e) <= 5) =>
                  /\ ev'.live = <<>> /\ ev'.commits = <<>>
                  /\ ~ev'.prevented
                  /\ UNCHANGED <<appVars, gridVars>>]_vars

\* C22, its case: a touch-move by (+2, +6) px ended a pending touch gesture
\* on a complete shape with a preview and a history.
C22_ScrollAbortSeen ==
    /\ ev.op = "move"
    /\ ev.e = TouchEvent(<< Touch(252, 196) >>)
    /\ ev.pre.session /\ ev.pre.n = 4 /\ ev.pre.preview
    /\ ~ev.prevented
    /\ IsNull(dragInfoRef)
    /\ listeners = <<>>
    /\ Len(points) = 4
    /\ history # <<>>

\* All coordinates of ps are whole grid units.
IsIntegerPointSet(ps) ==
    \A i \in 1..Len(ps) : ps[i].x % Unit = 0 /\ ps[i].y % Unit = 0

\* The PointSet a drag of the session `info` gives for the pointer at the
\* grid position `pos`, as the claim states it.
DraggedFromBaseline(info, pos) ==
    LET dx == pos.x - info.startPos.x
        dy == pos.y - info.startPos.y
    IN  [i \in 1..Len(info.initialPoints) |->
            IF info.type = "shape" \/ i - 1 = info.index
            THEN Pt(MathRound(info.initialPoints[i].x + dx),
                    MathRound(info.initialPoints[i].y + dy))
            ELSE info.initialPoints[i]]

\* C23: the baseline, the anchor, the kind and the index of a session stay
\* fixed until it ends or a pointer-down starts another one; every live
\* update is the baseline with the displacement (current grid position
\* minus anchor) added, and the sum
\* rounded, at the point of pointIndex only (Point-kind) or at every point
\* (Shape-kind), whatever was emitted before; it is as long as the baseline,
\* and with the pointer at the anchor it is an integer baseline itself.
C23_LiveUpdateFromBaseline ==
    [][/\ (~IsNull(dragInfoRef) /\ ~IsNull(dragInfoRef') /\ ev'.op # "down") =>
             /\ Val(dragInfoRef').initialPoints = Val(dragInfoRef).initialPoints
             /\ Val(dragInfoRef').startPos = Val(dragInfoRef).startPos
             /\ Val(dragInfoRef').type = Val(dragInfoRef).type
             /\ Val(dragInfoRef').index = Val(dragInfoRef).index
       /\ (ev'.op = "move" /\ ev'.live # <<>>) =>
             LET info == Val(dragInfoRef)
                 pos == Val(getCoordsFromEvent(ev'.e))
                 out == ev'.live[Len(ev'.live)]
             IN  /\ out = DraggedFromBaseline(info, pos)
                 /\ Len(out) = Len(info.initialPoints)
                 /\ info.type = "point" =>
                       \A i \in 1..Len(out) :
                           i - 1 # info.index => out[i] = info.initialPoints[i]
                 /\ (pos = info.startPos /\ IsIntegerPointSet(info.initialPoints)) =>
                       out = info.initialPoints
                 /\ points' = out]_vars

\* C23, its case: in a confirmed Point-kind drag on four points a move with
\* the pointer at the anchor emitted the baseline.
C23_BackToAnchorSeen ==
    /\ ev.op = "move"
    /\ Len(ev.live) = 1
    /\ ~IsNull(dragInfoRef)
    /\ Val(dragInfoRef).type = "point"
    /\ Len(Val(dragInfoRef).initialPoints) = 4
    /\ getCoordsFromEvent(ev.e) = Some(Val(dragInfoRef).startPos)
    /\ ev.live[1] = Val(dragInfoRef).initialPoints
    /\ isMoving

\* C23, the other cases: a Point-kind drag moved one point of four, and a
\* Shape-kind drag moved all four.
C23_PointMovedSeen ==
    /\ ev.op = "move"
    /\ Len(ev.live) = 1
    /\ ~IsNull(dragInfoRef)
    /\ Val(dragInfoRef).type = "point"
    /\ Len(points) = 4
    /\ Cardinality({ i \in 1..4 : points[i] # Val(dragInfoRef).initialPoints[i] }) = 1

C23_ShapeMovedSeen ==
    /\ ev.op = "move"
    /\ Len(ev.live) = 1
    /\ ~IsNull(dragInfoRef)
    /\ Val(dragInfoRef).type = "shape"
    /\ Len(points) = 4
    /\ \A i \in 1..4 : points[i] # Val(dragInfoRef).initialPoints[i]

\* C24: the session's latest PointSet is its baseline at Start and the last
\* live update after each one, and nothing else changes it until the
\* session ends or a pointer-down starts another one.  A pointer-up or
\* touch-end that finds a session emits a
\* commit exactly when the session is confirmed, and then exactly one, the
\* session's latest PointSet; when the session is not confirmed (no
\* movement, or a touch gesture still pending) it emits none and leaves the
\* PointSet, the preview and the history as they are.
C24_CommitIffConfirmed ==
    [][/\ (ev'.op = "down" /\ dragInfoRef' # dragInfoRef) =>
             latestDraggedPointsRef' = Some(Val(dragInfoRef').initialPoints)
       /\ (~IsNull(dragInfoRef) /\ ~IsNull(dragInfoRef') /\ ev'.op # "down") =>
             latestDraggedPointsRef' =
                 IF ev'.live # <<>> THEN Some(ev'.live[Len(ev'.live)])
                                    ELSE latestDraggedPointsRef
       /\ (ev'.op = "up" /\ ~IsNull(dragInfoRef)) =>
             /\ IsNull(dragInfoRef')
             /\ IF Val(dragInfoRef).isDragging
                THEN ev'.commits = << Val(latestDraggedPointsRef) >>
                ELSE /\ ev'.commits = <<>>
                     /\ UNCHANGED <<points, transformedPoints, history>>
       /\ ev'.op # "up" => ev'.commits = <<>>]_vars

\* C24, its case: a confirmed drag on a shape with a preview was committed
\* at End, its PointSet away from where the shape was clicked.
C24_ConfirmedDragCommittedSeen ==
    /\ ev.op = "up"
    /\ ev.pre.session /\ ev.pre.preview
    /\ Len(ev.commits) = 1
    /\ Len(ev.commits[1]) = 4
    /\ ev.commits[1] # << G(0, 0), G(2, 0), G(2, 2), G(0, 2) >>
    /\ Len(history) = 1
    /\ history[1].originalPoints = ev.commits[1]

\* C24, the other case: a gesture on four points ended unconfirmed, with no
\* commit.
C24_UnconfirmedEndSeen ==
    /\ ev.op = "up"
    /\ ev.pre.session /\ ev.pre.n = 4
    /\ ev.commits = <<>>
    /\ IsNull(dragInfoRef)

\* C25: whenever no request is in flight and no DragSession is active, the
\* preview is non-null exactly when the history is non-empty, and then the
\* base PointSet has 4 points, history[0].originalPoints is the base
\* PointSet and the preview is history[0]'s transformation of the base
\* PointSet, rounded to 2 decimals.
C25_PreviewFollowsHistory ==
    (~isAnimating /\ IsNull(animation) /\ IsNull(dragInfoRef)) =>
        /\ ~IsNull(transformedPoints) <=> history # <<>>
        /\ history # <<>> =>
              /\ Len(points) = 4
              /\ history[1].originalPoints = points
              /\ transformedPoints =
                    Some(RoundPoints2(applyTransform(points, history[1].type,
                                                     history[1].params)))

ConfirmedSession ==
    ~IsNull(dragInfoRef) /\ Val(dragInfoRef).isDragging

\* C27, first part: a move event, from whichever source and on a session
\* started by whichever source, emits a PointSet or suppresses the default
\* action only when the session is confirmed once the event is handled.
EmitsOnlyWhenConfirmed ==
    (ev'.op = "move" /\ (ev'.live # <<>> \/ ev'.prevented)) => ConfirmedSession'

\* C27, second part: a touch-started session goes from pending to confirmed
\* only by a touch-move that exceeds the threshold with dx >= dy.
ConfirmedByTouchMoveOnly ==
    (PendingTouchSession /\ ConfirmedSession') =>
        /\ ev'.op = "move"
        /\ ev'.e.isTouch
        /\ TouchDx(ev'.e) > 5 \/ TouchDy(ev'.e) > 5
        /\ TouchDx(ev'.e) >= TouchDy(ev'.e)

\* C27: both parts, in every step.
C27_LiveUpdateOnlyWhenConfirmed ==
    [][EmitsOnlyWhenConfirmed /\ ConfirmedByTouchMoveOnly]_vars

\* C28, first part: the dragInfo state is set whenever a DragSession is
\* active.
GuardSetWhileSession ==
    ~IsNull(dragInfoRef) => ~IsNull(dragInfo)

\* C28, second part: the click that immediately follows the pointer-up
\* ending a gesture adds no point.
ClickAfterUpAddsNoPoint ==
    (ev.op = "up" /\ ev.pre.session /\ ev'.op = "click") => points' = points

\* C28: both parts, under every interleaving of End, the deferred
\* setDragInfo(null) and a new Start.
C28_GuardCoversSession ==
    /\ []GuardSetWhileSession
    /\ [][ClickAfterUpAddsNoPoint]_vars

\* C29 as claimed: in every reachable state isAnimating is true exactly when
\* an AnimationRequest is active, and the parameter controls and the Apply
\* button are disabled exactly then.
C29_AsClaimed ==
    /\ isAnimating <=> ~IsNull(animation)
    /\ ParameterControlsDisabled <=> ~IsNull(animation)
    /\ ApplyButtonDisabled <=> ~IsNull(animation)

\* C29 as amended: in every reachable state isAnimating is true exactly when
\* an AnimationRequest is active, which is exactly when its completion is
\* pending; the parameter controls are disabled exactly then, and the Apply
\* button exactly when a request is active or the base PointSet has not 4
\* points.
C29_AnimatingIffRequestActive ==
    /\ isAnimating <=> ~IsNull(animation)
    /\ isAnimating <=> timers # <<>>
    /\ ParameterControlsDisabled <=> ~IsNull(animation)
    /\ ApplyButtonDisabled <=> (~IsNull(animation) \/ Len(points) # 4)

\* C29, its case: a request is in flight on a complete shape, right after
\* its Apply, and the controls are disabled.
C29_RequestInFlightSeen ==
    /\ ev.op = "apply"
    /\ ~ev.pre.isAnimating
    /\ isAnimating /\ ~IsNull(animation)
    /\ Len(points) = 4
    /\ ParameterControlsDisabled /\ ApplyButtonDisabled

\* C29, the other case: the completion has run and the controls are
\* enabled again.
C29_ControlsEnabledAgainSeen ==
    /\ ev.op = "complete"
    /\ ~isAnimating /\ IsNull(animation)
    /\ ~ParameterControlsDisabled /\ ~ApplyButtonDisabled

====
